---- MODULE Spec2Model ----
(***************************************************************************)
(* Model of RealTimeAnalyzer (backend/realtime_analysis.py): the engine    *)
(* that ingests audio chunks, keeps one rolling buffer, computes live      *)
(* metrics, gates the heavy analysis pass (transcription + scoring) and    *)
(* keeps per-session records.                                              *)
(*                                                                         *)
(* Audio is modelled in runs: one element of `buffer` is a record          *)
(* [n, e] that stands for n consecutive samples of mean-square energy e,   *)
(* spread evenly over the run (silence, or whole periods of a tone).       *)
(* Energies are integers in units of 1e-4, so the silence threshold 0.01   *)
(* is 100 and the squared speech threshold 0.01^2 is 1.  Sample counts,    *)
(* durations and energies are then computed exactly as the code computes   *)
(* them, for chunks of any number of samples.                              *)
(*                                                                         *)
(* The engine runs on one asyncio event loop: a coroutine runs atomically  *)
(* between two suspension points.  A call of process_audio_chunk can       *)
(* suspend inside the heavy pass at the speech-to-text call and at the     *)
(* scorer call; each task's pc records where it is suspended.              *)
(* emit_callback hands its message to the socket before it can suspend,    *)
(* and the call touches no engine state after its pass returned, so the    *)
(* emissions of a call are part of the step in which its pass returns.     *)
(***************************************************************************)
EXTENDS Integers, Sequences, FiniteSets, TLC

VARIABLES
    buffer,         \* self.buffer: the engine-wide sample buffer (runs)
    is_processing,  \* self.is_processing
    session_data,   \* self.session_data: session id -> record, or NoSession
    live_metrics,   \* self.live_metrics (one dict for the whole engine)
    pc,             \* per task: "idle", "transcribing" or "analyzing"
    local,          \* per task: the locals of its suspended heavy pass
    ret,            \* the call that returned last, and what it returned
    clock,          \* number of chunks processed so far (stands for datetime.now())
    events,         \* the events handed to emit_callback so far, in call order
    connections,    \* per session id: websocket handlers in their receive loop
                    \* (open) and handlers past it, before their cleanup (closing)
    handling,       \* per task: arrival number of the chunk its call is processing
    response,       \* the dict returned by the last generate_live_investor_response
                    \* or end_session whose caller kept it
    ledger,         \* per session id, counted by the caller since the last
                    \* start_session: chunks processed and passes completed
    audio_data,     \* the bytes of the binary message being handed to the engine
    audio_array     \* what _bytes_to_audio_array returned for them

vars == <<buffer, is_processing, session_data, live_metrics, pc, local, ret, clock,
          events, connections, handling, response, ledger, audio_data, audio_array>>

\* The state of the websocket layer: untouched by calls made without a callback
\* and outside a websocket handler.
transport == <<events, connections, handling>>

\* What a caller of the engine's interface keeps of its calls: untouched by
\* calls whose arguments and results are not followed.
api == <<response, ledger, audio_data, audio_array>>

---------------------------------------------------------------------------
(* Program constants *)

sample_rate == 16000
max_buffer_size == 30
transcription_threshold == 3
silence_threshold == 100
speech_threshold_sq == 1
recent_seconds == 2
min_file_size == 1000
trend_keep == 10

(* Bounds of the model *)

MaxChunks == 2
MaxPasses == 12
MaxResponses == 1

Tasks == {1, 2}
SessionIds == {"S1", "S2"}
UserIds == {1}

\* The id served in the environments of a single session id.
ApiSessions == {"S1"}

\* The unit the chunk lengths below are counted in: half a second of audio.
BlockSamples == sample_rate \div 2

\* Mean-square energy of a run, in units of 1e-4: silence, and a 0.3 sine tone.
Level == [silent |-> 0, tone |-> 450]
Silent == Level.silent
Tone == Level.tone

\* n samples of one level, and the same counted in blocks.
Run(n, level) == IF n = 0 THEN <<>> ELSE <<[n |-> n, e |-> level]>>

Rep(n, level) == Run(n * BlockSamples, level)

\* Chunk lengths in blocks: exactly the transcription threshold, and just over
\* half the maximal buffer.
ThresholdChunk == (transcription_threshold * sample_rate) \div BlockSamples
LongChunk == (max_buffer_size * sample_rate) \div (2 * BlockSamples) + 1

\* Decoded chunks (the array _bytes_to_audio_array returns), as blocks: 3.0 s of
\* tone, 15.5 s of tone, 15.5 s of silence, and 5.5 s of silence followed by
\* 1.5 s of tone.
LeadIn == Rep(ThresholdChunk + 5, Silent) \o Rep(ThresholdChunk \div 2, Tone)
Chunks ==
    {Rep(ThresholdChunk, Tone), Rep(LongChunk, Tone), Rep(LongChunk, Silent), LeadIn}

\* Texts the speech-to-text collaborator can return; NoText is None.
NoText == "<none>"
Texts == {"hello"}

NoSession == [absent |-> TRUE]
\* Markers of a key that is absent from the scorer's dict.
NoValue == 0 - 1
NoEmotion == "<absent>"

---------------------------------------------------------------------------
(* Sequence helpers *)

\* Sum of the squared samples of the first i runs, and their sample count.
RECURSIVE SumTo(_, _)
SumTo(s, i) == IF i = 0 THEN 0 ELSE s[i].n * s[i].e + SumTo(s, i - 1)

SumSeq(s) == SumTo(s, Len(s))

RECURSIVE CountTo(_, _)
CountTo(s, i) == IF i = 0 THEN 0 ELSE s[i].n + CountTo(s, i - 1)

\* len(x)
NSamples(s) == CountTo(s, Len(s))

\* Faulty variant, for contrast: an extension that appends its argument twice.
Cat_twice(a, b) == a \o b \o b

\* list.extend: concatenation, adjacent runs of one level merged so that equal
\* sample sequences are equal values.
Cat(a, b) ==
    IF a = <<>> THEN b
    ELSE IF b = <<>> THEN a
    ELSE IF a[Len(a)].e = b[1].e
    THEN SubSeq(a, 1, Len(a) - 1)
            \o <<[n |-> a[Len(a)].n + b[1].n, e |-> b[1].e]>> \o Tail(b)
    ELSE a \o b

\* Python's s[-n:] for n > 0.
LastN(s, n) == IF Len(s) <= n THEN s ELSE SubSeq(s, Len(s) - n + 1, Len(s))

\* Python's s[:n].
FirstN(s, n) == IF Len(s) <= n THEN s ELSE SubSeq(s, 1, n)

\* The same slices of a sample sequence held in runs, n counted in samples.
RECURSIVE LastSamples(_, _)
LastSamples(s, n) ==
    IF n <= 0 \/ s = <<>> THEN <<>>
    ELSE LET r == s[Len(s)] IN
         IF r.n >= n THEN <<[n |-> n, e |-> r.e]>>
         ELSE LastSamples(SubSeq(s, 1, Len(s) - 1), n - r.n) \o <<r>>

RECURSIVE FirstSamples(_, _)
FirstSamples(s, n) ==
    IF n <= 0 \/ s = <<>> THEN <<>>
    ELSE LET r == s[1] IN
         IF r.n >= n THEN <<[n |-> n, e |-> r.e]>>
         ELSE <<r>> \o FirstSamples(Tail(s), n - r.n)

\* np.mean(x ** 2) as an exact fraction num/den (den = 0: empty input).
Energy(s) == [num |-> SumSeq(s), den |-> NSamples(s)]

EnergyGT(e, thr) == e.den > 0 /\ e.num > thr * e.den
EnergyLT(e, thr) == e.den > 0 /\ e.num < thr * e.den

---------------------------------------------------------------------------
(* The engine's pure steps *)

ResetMetrics(now) ==
    [volume_level |-> 0, speaking_pace |-> 0, confidence_trend |-> <<>>,
     emotion_trend |-> <<>>, speaking_time |-> 0, is_speaking |-> FALSE,
     pause_count |-> 0, last_update |-> now]

NewSession(uid) ==
    [user_id |-> uid, total_chunks |-> 0,
     accumulated_transcript |-> <<>>, analysis_results |-> <<>>]

\* `session_id in self.session_data`
session_known(sd, sid) == sd[sid] # NoSession

\* Faulty variant, for contrast: the buffer is reset before the session is looked up.
end_unknown_buffer_reset(buf) == <<>>

\* end_session on an unknown id: the ValueError is raised before
\* `self.buffer = []` is reached.
end_unknown_buffer(buf) == buf

\* Faulty variant, for contrast: the session is looked up after the append.
chunk_unknown_buffer_extended(buf, chunk) == Cat(buf, chunk)

\* process_audio_chunk on an unknown id: the ValueError is raised before
\* `self.buffer.extend(audio_array)` is reached.
chunk_unknown_buffer(buf, chunk) == buf

\* floor(40000 * num / den), computed in steps that stay within 32 bits.
Scaled(num, den) ==
    LET r1 == num % den
        r2 == (200 * r1) % den
    IN  40000 * (num \div den) + 200 * ((200 * r1) \div den) + (200 * r2) \div den

\* The least v in lo..hi with x < (2v + 1)^2: the integer nearest to sqrt(x) / 2.
RECURSIVE NearestRoot(_, _, _)
NearestRoot(x, lo, hi) ==
    IF lo = hi THEN lo
    ELSE LET mid == (lo + hi) \div 2 IN
         IF x < (2 * mid + 1) * (2 * mid + 1)
         THEN NearestRoot(x, lo, mid)
         ELSE NearestRoot(x, mid + 1, hi)

\* round(volume_level * 100, 2) in hundredths: the integer nearest to
\* 100 * sqrt(level), level being the mean square in units of 1e-4 (at most
\* 10000, a full-scale signal).
VolumeOf(c) == NearestRoot(Scaled(SumSeq(c), NSamples(c)), 0, 10000)

\* is_speaking = volume_level > 0.01, on the un-scaled RMS.
IsSpeaking(chunk) == EnergyGT(Energy(chunk), speech_threshold_sq)

\* _calculate_live_metrics.  On an empty array the zero-crossing-rate call
\* raises and the except branch returns the metrics unchanged.
\* speaking_time is kept as a sample count (seconds * sample_rate).
\* pitch_variation is not modelled: blocks carry no zero-crossing data.
\* Faulty variant, for contrast: the calculator records the volume as a
\* confidence point.
_calculate_live_metrics_trending(lm, chunk, now) ==
    [lm EXCEPT !.confidence_trend = Append(@, VolumeOf(chunk)), !.last_update = now]

_calculate_live_metrics(lm, chunk, now) ==
    IF Len(chunk) = 0 THEN lm
    ELSE [lm EXCEPT
            !.volume_level = VolumeOf(chunk),
            !.is_speaking = IsSpeaking(chunk),
            !.last_update = now,
            !.speaking_time =
                IF IsSpeaking(chunk) THEN @ + NSamples(chunk) ELSE @]

\* The gate of process_audio_chunk: buffer_duration > transcription_threshold and
\* the energy of the last 2 seconds > silence_threshold.
recent_audio(buf) == LastSamples(buf, recent_seconds * sample_rate)

DurationGT(buf) == NSamples(buf) > transcription_threshold * sample_rate

gate(buf) ==
    /\ DurationGT(buf)
    /\ EnergyGT(Energy(recent_audio(buf)), silence_threshold)

\* Faulty variant, for contrast: the guard is not consulted.
already_processing_ignored(flag) == FALSE

\* `if self.is_processing: return None`
already_processing(flag) == flag

\* The validation of the snapshot at the head of _process_buffer_chunk:
\* which return, if any, is taken before the audio file is written.
\* Faulty variant, for contrast: the energy of the snapshot is not examined.
Validate_unheard(snapshot) ==
    IF Len(snapshot) = 0 THEN "abort_empty"
    ELSE IF NSamples(snapshot) < transcription_threshold * sample_rate THEN "abort_short"
    ELSE "valid"

Validate(snapshot) ==
    IF Len(snapshot) = 0 THEN "abort_empty"
    ELSE IF NSamples(snapshot) < transcription_threshold * sample_rate THEN "abort_short"
    ELSE IF EnergyLT(Energy(snapshot), silence_threshold) THEN "abort_silence"
    ELSE "valid"

\* Size in bytes of the 16-bit WAV file sf.write leaves for the snapshot: header
\* plus two bytes a sample when the write went through, nothing when it did not
\* (a write that raises leaves the pass the same way: None, flag cleared).
FileSize(snapshot, written) == IF written THEN 44 + 2 * NSamples(snapshot) ELSE 0

\* `not os.path.exists(temp_path) or os.path.getsize(temp_path) < 1000`
file_invalid(size) == size < min_file_size

\* _manage_buffer
max_buffer_length == max_buffer_size * sample_rate
keep_length == (max_buffer_length * 7) \div 10

\* Faulty variant, for contrast: the slice keeps the oldest samples (buffer[:keep_length]).
_manage_buffer_oldest(buf) ==
    IF NSamples(buf) > max_buffer_length
    THEN FirstSamples(buf, keep_length)
    ELSE buf

\* Faulty variant, for contrast: the pass consumes what it analysed.
_manage_buffer_consumed(buf) == <<>>

_manage_buffer(buf) ==
    IF NSamples(buf) > max_buffer_length
    THEN LastSamples(buf, keep_length)
    ELSE buf

\* _update_analysis_trends, for an analysis dict without 'error'.
\* confidence_score, dominant_emotion, words_per_minute: NoValue when the key
\* is absent (analysis.get('confidence_score', 0) then yields 0).
\* Faulty variant, for contrast: the slice keeps the oldest entries (trend[:10]).
TrimTrend_oldest(tr) == IF Len(tr) > trend_keep THEN FirstN(tr, trend_keep) ELSE tr

TrimTrend(tr) == IF Len(tr) > trend_keep THEN LastN(tr, trend_keep) ELSE tr

_update_analysis_trends(lm, analysis, now) ==
    LET score == IF analysis.confidence_score = NoValue THEN 0
                 ELSE analysis.confidence_score
        ct == TrimTrend(Append(lm.confidence_trend, score))
        et == IF analysis.dominant_emotion = NoEmotion THEN lm.emotion_trend
              ELSE TrimTrend(Append(lm.emotion_trend,
                       [emotion |-> analysis.dominant_emotion, timestamp |-> now]))
        sp == IF analysis.words_per_minute = NoValue THEN lm.speaking_pace
              ELSE analysis.words_per_minute
    IN  [lm EXCEPT !.confidence_trend = ct, !.emotion_trend = et, !.speaking_pace = sp]

---------------------------------------------------------------------------
(* Collaborators *)

\* What ml_voice_analyzer.analyze_transcript can do: return an analysis dict,
\* return a dict carrying 'error', or raise.
Analyses ==
    {[confidence_score |-> 80, dominant_emotion |-> "confident", words_per_minute |-> 120]}
ErrorDict == [error |-> "scorer error"]
Raised == [raised |-> TRUE]
ScorerOutcomes == Analyses \cup {ErrorDict, Raised}

\* Faulty variant, for contrast: the payload carries no score of 0.
Listening_unscored(energy) ==
    [message |-> "Continuing to listen...",
     audio_quality |-> IF EnergyGT(energy, silence_threshold) THEN "detected" ELSE "silent",
     confidence_score |-> NoValue]

Listening(energy) ==
    [message |-> "Continuing to listen...",
     audio_quality |-> IF EnergyGT(energy, silence_threshold) THEN "detected" ELSE "silent",
     confidence_score |-> 0]

\* Faulty variant, for contrast: the failure is recorded without its score of 0.
AnalysisFailed_unscored == [error |-> "Analysis failed", confidence_score |-> NoValue]

AnalysisFailed == [error |-> "Analysis failed", confidence_score |-> 0]

---------------------------------------------------------------------------
(* State *)

NoLocal == [sid |-> "", live |-> FALSE, result |-> <<>>]
NoResponse == [type |-> "none"]
NoCount == [chunks |-> 0, passes |-> 0]
NoRet == [op |-> "none", outcome |-> "none", pass |-> "none"]

Ret(op, outcome, pass) == [op |-> op, outcome |-> outcome, pass |-> pass]

\* Tasks are anonymous callers of the engine, and an idle task holds no state:
\* a call by any idle task is the same step as that call by the lowest idle
\* task, which is the one that takes it.
CanCall(t) == pc[t] = "idle" /\ \A u \in Tasks : u < t => pc[u] # "idle"

InPass(t) == pc[t] \in {"transcribing", "analyzing"}

\* The engine after construction, about to be handed the bytes `data`.
InitWith(data) ==
    /\ buffer = <<>>
    /\ is_processing = FALSE
    /\ session_data = [sid \in SessionIds |-> NoSession]
    /\ live_metrics = ResetMetrics(0)
    /\ pc = [t \in Tasks |-> "idle"]
    /\ local = [t \in Tasks |-> NoLocal]
    /\ ret = NoRet
    /\ clock = 0
    /\ events = <<>>
    /\ connections = [sid \in SessionIds |-> [open |-> 0, closing |-> 0, closed |-> 0]]
    /\ handling = [t \in Tasks |-> 0]
    /\ response = NoResponse
    /\ ledger = [sid \in SessionIds |-> NoCount]
    /\ audio_data = data
    /\ audio_array = <<>>

Init == InitWith(<<>>)

---------------------------------------------------------------------------
(* Operations *)

\* A start_session or end_session on sid replaces or deletes the dict a
\* suspended pass of sid holds: the pass keeps the old dict.
Orphan(sid) ==
    [u \in Tasks |-> IF local[u].sid = sid THEN [local[u] EXCEPT !.live = FALSE]
                     ELSE local[u]]

\* start_session: overwrites session_data[session_id] and rebinds live_metrics.
start_session(t, sid, uid) ==
    /\ CanCall(t)
    /\ session_data' = [session_data EXCEPT ![sid] = NewSession(uid)]
    /\ local' = Orphan(sid)
    /\ live_metrics' = ResetMetrics(clock)
    /\ ret' = Ret("start_session", "started", "none")
    /\ UNCHANGED <<buffer, is_processing, pc, clock>>

\* end_session: the summary, then `del self.session_data[session_id]` and
\* `self.buffer = []`; an unknown id raises inside the try and the except branch
\* returns an error dict.
end_session(t, sid) ==
    /\ CanCall(t)
    /\ IF session_known(session_data, sid)
       THEN /\ session_data' = [session_data EXCEPT ![sid] = NoSession]
            /\ buffer' = <<>>
            /\ local' = Orphan(sid)
            /\ ret' = Ret("end_session", "summary", "none")
       ELSE /\ ret' = Ret("end_session", "error", "none")
            /\ buffer' = end_unknown_buffer(buffer)
            /\ UNCHANGED <<session_data, local>>
    /\ UNCHANGED <<is_processing, live_metrics, pc, clock>>

\* process_audio_chunk up to its first suspension point (or to its return).
process_audio_chunk(t, sid, chunk, written) ==
    /\ CanCall(t)
    /\ IF ~session_known(session_data, sid)
       THEN \* raise ValueError, before the try
            /\ ret' = Ret("process_audio_chunk", "raised", "none")
            /\ buffer' = chunk_unknown_buffer(buffer, chunk)
            /\ UNCHANGED <<is_processing, session_data, live_metrics, pc, local, clock>>
       ELSE
        LET now == clock + 1
            buf == Cat(buffer, chunk)
            sd == [session_data EXCEPT ![sid].total_chunks = @ + 1]
            lm == _calculate_live_metrics(live_metrics, chunk, now)
            done(pass) == ret' = Ret("process_audio_chunk", "processed", pass)
        IN  /\ clock' = now
            /\ buffer' = buf
            /\ session_data' = sd
            /\ live_metrics' = lm
            /\ IF ~gate(buf)
               THEN done("not_called") /\ UNCHANGED <<is_processing, pc, local>>
               ELSE IF already_processing(is_processing)
               THEN done("skipped") /\ UNCHANGED <<is_processing, pc, local>>
               ELSE IF Validate(buf) # "valid"
               THEN \* return None with is_processing left set
                    /\ is_processing' = TRUE
                    /\ done(Validate(buf))
                    /\ UNCHANGED <<pc, local>>
               ELSE IF file_invalid(FileSize(buf, written))
               THEN \* return None inside the inner try: finally clears the flag
                    /\ is_processing' = FALSE
                    /\ done("abort_file")
                    /\ UNCHANGED <<pc, local>>
               ELSE \* suspended in _transcribe_audio_chunk
                    /\ is_processing' = TRUE
                    /\ pc' = [pc EXCEPT ![t] = "transcribing"]
                    /\ local' = [local EXCEPT ![t] =
                          [sid |-> sid, live |-> FALSE,
                           result |-> [duration |-> NSamples(buf),
                                       audio_energy |-> Energy(buf),
                                       has_speech |-> EnergyGT(Energy(buf), silence_threshold)]]]
                    /\ UNCHANGED ret

\* Faulty variant, for contrast: the result is numbered one past the chunks counted.
AnalysisResult_numbered_ahead(session, loc, text, now) ==
    [chunk_id |-> session.total_chunks + 1,
     transcript |-> IF text = NoText THEN "" ELSE text,
     timestamp |-> now,
     duration |-> loc.result.duration,
     audio_energy |-> loc.result.audio_energy,
     has_speech |-> loc.result.has_speech]

\* The analysis_result dict of a pass, built after the transcription returned.
AnalysisResult(session, loc, text, now) ==
    [chunk_id |-> session.total_chunks,
     transcript |-> IF text = NoText THEN "" ELSE text,
     timestamp |-> now,
     duration |-> loc.result.duration,
     audio_energy |-> loc.result.audio_energy,
     has_speech |-> loc.result.has_speech]

WithAnalysis(result, payload) ==
    [chunk_id |-> result.chunk_id, transcript |-> result.transcript,
     timestamp |-> result.timestamp, duration |-> result.duration,
     audio_energy |-> result.audio_energy, has_speech |-> result.has_speech,
     analysis |-> payload]

\* `session['accumulated_transcript'] += " " + chunk_transcript`: the transcript
\* is kept as the sequence of the pieces concatenated so far.
accumulate(acc, text) == acc \o <<" ", text>>

\* `session['analysis_results'].append(analysis_result)` on the dict the pass
\* holds.  That dict is the record in session_data only while no start_session
\* or end_session has replaced or deleted it since the pass looked it up (live);
\* otherwise the append lands on a dict no one reads.
store_result(sd, sid, live, result) ==
    IF live THEN [sd EXCEPT ![sid].analysis_results = Append(@, result)] ELSE sd

\* Faulty variant, for contrast: the end of a pass leaves the flag set.
finally_is_processing_left == TRUE

\* `self.is_processing = False` in the finally clause of the pass.
finally_is_processing == FALSE

\* The history of a session record, and its last entry.
History(session) == session.analysis_results
LastResult(session) == History(session)[Len(History(session))]

\* The transcription returns (text, or NoText for None) and the pass runs on to
\* the scorer call or to its end.
transcribe_done(t, text) ==
    /\ pc[t] = "transcribing"
    /\ LET sid == local[t].sid IN
       IF ~session_known(session_data, sid)
       THEN \* session_data[session_id] raises KeyError: except, finally
            /\ is_processing' = finally_is_processing
            /\ pc' = [pc EXCEPT ![t] = "idle"]
            /\ local' = [local EXCEPT ![t] = NoLocal]
            /\ ret' = Ret("process_audio_chunk", "processed", "abort_exception")
            /\ UNCHANGED <<buffer, session_data, live_metrics>>
       ELSE LET session == session_data[sid]
                result == AnalysisResult(session, local[t], text, clock)
            IN  IF text # NoText
                THEN \* accumulate, then suspended in analyze_transcript
                     /\ session_data' = [session_data EXCEPT
                            ![sid].accumulated_transcript = accumulate(@, text)]
                     /\ pc' = [pc EXCEPT ![t] = "analyzing"]
                     /\ local' = [local EXCEPT ![t] =
                            [sid |-> sid, live |-> TRUE, result |-> result]]
                     /\ UNCHANGED <<buffer, is_processing, live_metrics, ret>>
                ELSE /\ session_data' = store_result(session_data, sid, TRUE,
                            WithAnalysis(result, Listening(result.audio_energy)))
                     /\ buffer' = _manage_buffer(buffer)
                     /\ is_processing' = finally_is_processing
                     /\ pc' = [pc EXCEPT ![t] = "idle"]
                     /\ local' = [local EXCEPT ![t] = NoLocal]
                     /\ ret' = Ret("process_audio_chunk", "processed", "recorded")
                     /\ UNCHANGED live_metrics
    /\ UNCHANGED clock

\* The scorer returns (or raises) and the pass runs to its end.
analyze_done(t, outcome) ==
    /\ pc[t] = "analyzing"
    /\ LET sid == local[t].sid
           payload == IF outcome = Raised THEN AnalysisFailed ELSE outcome
       IN  /\ live_metrics' =
                IF outcome # Raised /\ "error" \notin DOMAIN outcome
                THEN _update_analysis_trends(live_metrics, outcome, clock)
                ELSE live_metrics
           /\ session_data' = store_result(session_data, sid, local[t].live,
                                  WithAnalysis(local[t].result, payload))
           /\ buffer' = _manage_buffer(buffer)
           /\ is_processing' = finally_is_processing
           /\ pc' = [pc EXCEPT ![t] = "idle"]
           /\ local' = [local EXCEPT ![t] = NoLocal]
           /\ ret' = Ret("process_audio_chunk", "processed", "recorded")
    /\ UNCHANGED clock

---------------------------------------------------------------------------
(* The engine under arbitrary callers *)

Next ==
    \/ \E t \in Tasks, sid \in SessionIds, uid \in UserIds :
          start_session(t, sid, uid) /\ UNCHANGED <<transport, api>>
    \/ \E t \in Tasks, sid \in SessionIds : end_session(t, sid) /\ UNCHANGED <<transport, api>>
    \/ \E t \in Tasks, sid \in SessionIds, chunk \in Chunks, written \in BOOLEAN :
          /\ clock < MaxChunks
          /\ process_audio_chunk(t, sid, chunk, written)
          /\ UNCHANGED <<transport, api>>
    \/ \E t \in Tasks, text \in Texts \cup {NoText} :
          transcribe_done(t, text) /\ UNCHANGED <<transport, api>>
    \/ \E t \in Tasks, outcome \in ScorerOutcomes :
          analyze_done(t, outcome) /\ UNCHANGED <<transport, api>>

Spec == Init /\ [][Next]_vars

---------------------------------------------------------------------------
(* The engine under its WebSocket handlers.  A handler connects to the        *)
(* session id of its URL, starts the session, and then serves one message at  *)
(* a time: it awaits process_audio_chunk before it receives again.  Several   *)
(* handlers may serve one id; connections[sid] counts those in their receive  *)
(* loop or in a call (open), those between the loop and their clean-up        *)
(* (closing) and those that have terminated (closed); MaxHandlers connections *)
(* are made in all.  events is the log of emit_callback calls; its chunk      *)
(* field names the call that emitted (the value of clock when the chunk       *)
(* arrived).                                                                  *)

MaxHandlers == Cardinality(Tasks)

Handlers(sid) ==
    connections[sid].open + connections[sid].closing + connections[sid].closed

\* Calls for sid that are suspended inside a pass: their handlers are not at
\* `await websocket.receive()`.
InFlight(sid) == Cardinality({t \in Tasks : InPass(t) /\ local[t].sid = sid})

\* Some handler of sid is waiting for its next message.
AtReceive(sid) == connections[sid].open > InFlight(sid)

Opened(sid) == [connections EXCEPT ![sid].open = @ + 1]
Leaving(sid) == [connections EXCEPT ![sid].open = @ - 1, ![sid].closing = @ + 1]
Left(sid) == [connections EXCEPT ![sid].open = @ - 1, ![sid].closed = @ + 1]
Cleaned(sid) == [connections EXCEPT ![sid].closing = @ - 1, ![sid].closed = @ + 1]

LiveMetricsEvent(sid, stamp) ==
    [event |-> "live_metrics", session_id |-> sid, chunk |-> stamp]

AnalysisUpdateEvent(sid, result) ==
    [event |-> "analysis_update", session_id |-> sid, analysis |-> result]

\* Faulty variant, for contrast: a call whose pass recorded a failure emits
\* nothing.
Emissions_unless_failed(sid, results, stamp) ==
    IF results # <<>> /\ "error" \in DOMAIN results[1].analysis
    THEN <<>>
    ELSE [i \in 1..Len(results) |-> AnalysisUpdateEvent(sid, results[i])]
            \o <<LiveMetricsEvent(sid, stamp)>>

\* What a returning process_audio_chunk hands to emit_callback: analysis_update
\* if the pass returned a result (results holds it, or is empty), then
\* live_metrics.  Nothing but the sends lies between the return of the pass and
\* the return of the call, so they are part of the step in which the pass returns.
Emissions(sid, results, stamp) ==
    [i \in 1..Len(results) |-> AnalysisUpdateEvent(sid, results[i])]
       \o <<LiveMetricsEvent(sid, stamp)>>

\* manager.connect and start_session, after the authentication.
ws_connect(sid, uid) ==
    /\ UNCHANGED api
    /\ Handlers("S1") + Handlers("S2") < MaxHandlers
    /\ \E t \in Tasks : start_session(t, sid, uid)
    /\ connections' = Opened(sid)
    /\ UNCHANGED <<events, handling>>

\* A binary message: `await process_audio_chunk(..., emit_callback)`.  A
\* ValueError leaves the loop for the handler's except clause and clean-up.
ws_receive_chunk(sid, chunk, written) ==
    /\ UNCHANGED api
    /\ AtReceive(sid)
    /\ \E t \in Tasks :
          /\ process_audio_chunk(t, sid, chunk, written)
          /\ IF ret'.outcome = "raised" /\ pc'[t] = "idle"
             THEN /\ connections' = Leaving(sid)
                  /\ UNCHANGED <<events, handling>>
             ELSE IF InPass(t)'
             THEN /\ handling' = [handling EXCEPT ![t] = clock']
                  /\ UNCHANGED <<events, connections>>
             ELSE /\ events' = events \o Emissions(sid, <<>>, clock')
                  /\ UNCHANGED <<connections, handling>>

\* The transcription of a handler's call returns.
ws_transcribe_done(t, text) ==
    /\ UNCHANGED api
    /\ transcribe_done(t, text)
    /\ IF InPass(t)'
       THEN UNCHANGED transport
       ELSE /\ events' = events \o Emissions(local[t].sid,
                    IF ret'.pass = "recorded"
                    THEN <<LastResult(session_data'[local[t].sid])>> ELSE <<>>,
                    handling[t])
            /\ handling' = [handling EXCEPT ![t] = 0]
            /\ UNCHANGED connections

\* The scorer of a handler's call returns or raises.
ws_analyze_done(t, outcome) ==
    /\ UNCHANGED api
    /\ analyze_done(t, outcome)
    /\ events' = events \o Emissions(local[t].sid,
            <<WithAnalysis(local[t].result,
                           IF outcome = Raised THEN AnalysisFailed ELSE outcome)>>,
            handling[t])
    /\ handling' = [handling EXCEPT ![t] = 0]
    /\ UNCHANGED connections

\* The end_session command: end_session, then the send of the summary, after
\* which the handler leaves the loop for its clean-up.
ws_end_command(sid) ==
    /\ UNCHANGED api
    /\ AtReceive(sid)
    /\ \E t \in Tasks : end_session(t, sid)
    /\ connections' = Leaving(sid)
    /\ UNCHANGED <<events, handling>>

\* The client disconnects: receive raises, the loop breaks and the finally
\* clause calls end_session.
ws_disconnect(sid) ==
    /\ UNCHANGED api
    /\ AtReceive(sid)
    /\ \E t \in Tasks : end_session(t, sid)
    /\ connections' = Left(sid)
    /\ UNCHANGED <<events, handling>>

\* The finally clause of a handler that left its loop after a send.
ws_cleanup(sid) ==
    /\ UNCHANGED api
    /\ connections[sid].closing > 0
    /\ \E t \in Tasks : end_session(t, sid)
    /\ connections' = Cleaned(sid)
    /\ UNCHANGED <<events, handling>>

NextHandlers ==
    \/ \E sid \in SessionIds, uid \in UserIds : ws_connect(sid, uid)
    \/ \E sid \in SessionIds, chunk \in Chunks, written \in BOOLEAN :
          clock < MaxChunks /\ ws_receive_chunk(sid, chunk, written)
    \/ \E t \in Tasks, text \in Texts \cup {NoText} : ws_transcribe_done(t, text)
    \/ \E t \in Tasks, outcome \in ScorerOutcomes : ws_analyze_done(t, outcome)
    \/ \E sid \in SessionIds : ws_end_command(sid)
    \/ \E sid \in SessionIds : ws_disconnect(sid)
    \/ \E sid \in SessionIds : ws_cleanup(sid)

SpecHandlers == Init /\ [][NextHandlers]_vars

---------------------------------------------------------------------------
(* Handlers of two users on one session id, and the metrics accessor.        *)

Owners == {1, 2}

AccessDenied == [status |-> 403, detail |-> "Access denied"]

\* GET /realtime/session/{session_id}/metrics for the authenticated user uid.
get_session_metrics(sid, uid) ==
    /\ response' =
          IF ~session_known(session_data, sid)
          THEN [status |-> 404, detail |-> "Session not found"]
          ELSE IF session_data[sid].user_id # uid THEN AccessDenied
          ELSE [status |-> 200, session_id |-> sid, live_metrics |-> live_metrics,
                total_chunks |-> session_data[sid].total_chunks,
                analysis_count |-> Len(session_data[sid].analysis_results)]
    /\ UNCHANGED <<buffer, is_processing, session_data, live_metrics, pc, local,
                   ret, clock, transport, ledger, audio_data, audio_array>>

NextOwners ==
    \/ \E sid \in ApiSessions, uid \in Owners : ws_connect(sid, uid)
    \/ \E sid \in ApiSessions :
          clock < MaxChunks /\ ws_receive_chunk(sid, Rep(LongChunk, Tone), TRUE)
    \/ \E t \in Tasks, text \in Texts \cup {NoText} : ws_transcribe_done(t, text)
    \/ \E t \in Tasks, outcome \in ScorerOutcomes : ws_analyze_done(t, outcome)
    \/ \E sid \in ApiSessions : ws_end_command(sid)
    \/ \E sid \in ApiSessions : ws_disconnect(sid)
    \/ \E sid \in ApiSessions : ws_cleanup(sid)
    \/ \E sid \in ApiSessions, uid \in Owners : get_session_metrics(sid, uid)

SpecOwners == Init /\ [][NextOwners]_vars

---------------------------------------------------------------------------
(* What the connection manager writes to a socket.  A Python value is a       *)
(* record naming its type (py): a scalar with its value (v), a list with its  *)
(* items, a dict with its items as key/value pairs, an object with a __dict__ *)
(* as its attributes (attrs), and every value that is not JSON-safe also with *)
(* the text str() gives for it.                                              *)

MaxSent == 2

PyStr(text) == [py |-> "str", v |-> text]
PyList(items) == [py |-> "list", items |-> items]
PyDict(items) == [py |-> "dict", items |-> items]
Item(key, value) == [k |-> key, v |-> value]

\* Values without a __dict__ that json cannot encode: a datetime, a numpy scalar.
Opaque == {[py |-> "datetime", str |-> "2026-01-01 00:00:00"],
           [py |-> "numpy.float32", str |-> "0.5"]}

\* None, True, 1, 0.5 and "a".
Scalars ==
    {[py |-> "NoneType"], [py |-> "bool", v |-> TRUE], [py |-> "int", v |-> 1],
     [py |-> "float", v |-> "0.5"], PyStr("a")}

\* Instances of a class: one attribute, holding a scalar or a datetime.
Instances ==
    {[py |-> "object", str |-> "<object>", attrs |-> <<Item("x", x)>>] :
        x \in {[py |-> "int", v |-> 1], [py |-> "datetime", str |-> "2026-01-01 00:00:00"]}}

Atoms == Scalars \cup Opaque \cup Instances

\* The values an event's data carries under its one key: an atom, a list of
\* one atom, a dict of one atom.
DataValues ==
    Atoms \cup {PyList(<<a>>) : a \in Atoms} \cup {PyDict(<<Item("k", a)>>) : a \in Atoms}

RECURSIVE _make_json_safe(_)
_make_json_safe(obj) ==
    IF obj.py = "dict"
    THEN PyDict([i \in 1..Len(obj.items) |->
                    Item(obj.items[i].k, _make_json_safe(obj.items[i].v))])
    ELSE IF obj.py = "list"
    THEN PyList([i \in 1..Len(obj.items) |-> _make_json_safe(obj.items[i])])
    ELSE IF obj.py \in {"bool", "int", "float", "str", "NoneType"} THEN obj
    ELSE IF "attrs" \in DOMAIN obj
    THEN PyDict([i \in 1..Len(obj.attrs) |->
                    Item(obj.attrs[i].k, _make_json_safe(obj.attrs[i].v))])
    ELSE PyStr(obj.str)

\* The message emit_to_session builds around the data.
Message(event, data) ==
    PyDict(<<Item("event", PyStr(event)), Item("data", data),
             Item("timestamp", PyStr("2026-01-01T00:00:00"))>>)

\* send_personal_message to a session with a registered, connected socket: the
\* converted message is written to it.
send_personal_message(sid, message) ==
    /\ connections[sid].open > 0
    /\ events' = Append(events, [event |-> "sent", session_id |-> sid,
                                 message |-> _make_json_safe(message)])
    /\ UNCHANGED <<buffer, is_processing, session_data, live_metrics, pc, local,
                   ret, clock, connections, handling, api>>

emit_to_session(event, data, sid) ==
    send_personal_message(sid, Message(event, data))

NextSend ==
    \/ \E uid \in UserIds : ws_connect("S1", uid)
    \/ \E value \in DataValues :
          /\ Len(events) < MaxSent
          /\ emit_to_session("analysis_update", PyDict(<<Item("analysis", value)>>), "S1")
    \/ ws_disconnect("S1")

SpecSend == Init /\ [][NextSend]_vars

---------------------------------------------------------------------------
(* The rest of the engine's interface: generate_live_investor_response and    *)
(* the summary of end_session, under a caller that keeps what the calls       *)
(* return and counts, per session id since its last start_session, the chunks *)
(* it had processed and the passes it saw completed (ledger).                 *)

\* A transcript the speech-to-text collaborator may return that is only
\* whitespace.
BlankText == " "

\* `not full_transcript.strip()`, on the pieces of the accumulated transcript.
\* Faulty variant, for contrast: only the empty transcript counts as blank.
IsBlank_when_empty(acc) == acc = <<>>

IsBlank(acc) == \A i \in 1..Len(acc) : acc[i] \in {" ", BlankText}

Encouragement ==
    [type |-> "investor_response",
     message |-> "I'm listening... please continue with your pitch.",
     investor_type |-> "encouraging"]

\* What str(e) is in the except clause of generate_live_investor_response.
SessionNotFound == "Session not found"
CollaboratorFailed == "collaborator failure"

\* Faulty variant, for contrast: the degraded response carries no error field.
Degraded_unmarked(cause) ==
    [type |-> "investor_response",
     message |-> "I'm having trouble processing your pitch right now. Please continue."]

\* The dict the except clause returns.
Degraded(cause) ==
    [type |-> "investor_response",
     error |-> <<"Response generation failed: ", cause>>,
     message |-> "I'm having trouble processing your pitch right now. Please continue."]

\* What investor_ai.generate_investor_response can do: return a response dict
\* or raise.
InvestorReply == [type |-> "investor_response", message |-> "reply"]
ResponderOutcomes == {InvestorReply, Raised}

\* Faulty variant, for contrast: the context carries the oldest three points.
WithContext_oldest(reply, lm) ==
    [type |-> reply.type, message |-> reply.message,
     session_context |->
        [total_speaking_time |-> lm.speaking_time,
         confidence_trend |-> FirstN(lm.confidence_trend, 3),
         current_pace |-> lm.speaking_pace]]

\* response['session_context'] = {...}
WithContext(reply, lm) ==
    [type |-> reply.type, message |-> reply.message,
     session_context |->
        [total_speaking_time |-> lm.speaking_time,
         confidence_trend |-> LastN(lm.confidence_trend, 3),
         current_pace |-> lm.speaking_pace]]

InvestorResponseEvent(sid, reply) ==
    [event |-> "investor_response", session_id |-> sid, response |-> reply]

\* generate_live_investor_response with a callback, up to the collaborator call
\* or to its return.  The ValueError of an unknown id is raised inside the try.
generate_live_investor_response(t, sid) ==
    /\ CanCall(t)
    /\ IF ~session_known(session_data, sid)
       THEN /\ response' = Degraded(SessionNotFound)
            /\ ret' = Ret("generate_live_investor_response", "returned", "none")
            /\ UNCHANGED <<pc, local>>
       ELSE IF IsBlank(session_data[sid].accumulated_transcript)
       THEN /\ response' = Encouragement
            /\ ret' = Ret("generate_live_investor_response", "returned", "none")
            /\ UNCHANGED <<pc, local>>
       ELSE \* suspended in investor_ai.generate_investor_response
            /\ pc' = [pc EXCEPT ![t] = "responding"]
            /\ local' = [local EXCEPT ![t] = [sid |-> sid, live |-> FALSE, result |-> <<>>]]
            /\ UNCHANGED <<response, ret>>
    /\ UNCHANGED <<buffer, is_processing, session_data, live_metrics, clock,
                   transport, ledger, audio_data, audio_array>>

\* The response collaborator returns or raises.
respond_done(t, outcome) ==
    /\ pc[t] = "responding"
    /\ IF outcome = Raised
       THEN /\ response' = Degraded(CollaboratorFailed)
            /\ UNCHANGED events
       ELSE /\ response' = WithContext(outcome, live_metrics)
            /\ events' = Append(events,
                   InvestorResponseEvent(local[t].sid, WithContext(outcome, live_metrics)))
    /\ pc' = [pc EXCEPT ![t] = "idle"]
    /\ local' = [local EXCEPT ![t] = NoLocal]
    /\ ret' = Ret("generate_live_investor_response", "returned", "none")
    /\ UNCHANGED <<buffer, is_processing, session_data, live_metrics, clock,
                   connections, handling, ledger, audio_data, audio_array>>

\* The summary dict of end_session, and the dict of its except clause.
summary(session, lm) ==
    [speaking_time |-> lm.speaking_time,
     total_chunks |-> session.total_chunks,
     final_transcript |-> session.accumulated_transcript,
     analysis_count |-> Len(session.analysis_results),
     confidence_trend |-> lm.confidence_trend]

EndFailed == [error |-> "Session end failed"]

Counted(sid, field) ==
    [ledger EXCEPT ![sid] = IF field = "chunks"
                            THEN [@ EXCEPT !.chunks = @ + 1]
                            ELSE [@ EXCEPT !.passes = @ + 1]]

api_start_session(sid, uid) ==
    /\ \E t \in Tasks : start_session(t, sid, uid)
    /\ ledger' = [ledger EXCEPT ![sid] = NoCount]
    /\ UNCHANGED <<transport, response, audio_data, audio_array>>

api_end_session(sid) ==
    /\ \E t \in Tasks : end_session(t, sid)
    /\ response' = IF session_known(session_data, sid)
                   THEN summary(session_data[sid], live_metrics)
                   ELSE EndFailed
    /\ UNCHANGED <<transport, ledger, audio_data, audio_array>>

api_process_audio_chunk(sid, chunk, written) ==
    /\ session_known(session_data, sid)
    /\ \E t \in Tasks : process_audio_chunk(t, sid, chunk, written)
    /\ ledger' = Counted(sid, "chunks")
    /\ UNCHANGED <<transport, response, audio_data, audio_array>>

\* A pass that ran to its end has completed; one that met a deleted session
\* was aborted.
api_transcribe_done(t, text) ==
    /\ transcribe_done(t, text)
    /\ ledger' = IF pc'[t] = "idle" /\ ret'.pass = "recorded"
                 THEN Counted(local[t].sid, "passes") ELSE ledger
    /\ UNCHANGED <<transport, response, audio_data, audio_array>>

api_analyze_done(t, outcome) ==
    /\ analyze_done(t, outcome)
    /\ ledger' = Counted(local[t].sid, "passes")
    /\ UNCHANGED <<transport, response, audio_data, audio_array>>

ApiChunks == {Rep(LongChunk, Tone)}

NextApi ==
    \/ \E sid \in ApiSessions, uid \in UserIds : api_start_session(sid, uid)
    \/ \E sid \in ApiSessions : api_end_session(sid)
    \/ \E sid \in ApiSessions, chunk \in ApiChunks, written \in BOOLEAN :
          clock < MaxChunks /\ api_process_audio_chunk(sid, chunk, written)
    \/ \E t \in Tasks, text \in Texts \cup {BlankText, NoText} : api_transcribe_done(t, text)
    \/ \E t \in Tasks, outcome \in ScorerOutcomes : api_analyze_done(t, outcome)
    \/ \E t \in Tasks, sid \in ApiSessions :
          Len(events) < MaxResponses /\ generate_live_investor_response(t, sid)
    \/ \E t \in Tasks, outcome \in ResponderOutcomes : respond_done(t, outcome)

SpecApi == Init /\ [][NextApi]_vars

---------------------------------------------------------------------------
(* The decoder.  A binary message is a sequence of bytes (0..255); a decoded  *)
(* sample is the exact fraction num/den that the float32 division yields (an  *)
(* int16 divided by a power of two is exact in float32).                     *)

MaxBytes == 5

\* Byte values the messages are made of: they give the int16 extremes
\* (00 80 = -32768, FF 7F = 32767), -1 (FF FF) and 0.
Bytes == {0, 127, 128, 255}

RECURSIVE ByteSeqsOf(_)
ByteSeqsOf(n) ==
    IF n = 0 THEN {<<>>}
    ELSE LET shorter == ByteSeqsOf(n - 1) IN
         shorter \cup {Append(b, x) : b \in {q \in shorter : Len(q) = n - 1}, x \in Bytes}

ByteSeqs == ByteSeqsOf(MaxBytes)

\* What a call leaves its caller with: a value, or an exception.
Returned(a) == [raised |-> FALSE, array |-> a]
Thrown == [raised |-> TRUE]

\* Faulty variant, for contrast: only chunks shorter than one sample are rejected.
too_small_for_sample(bytes) == Len(bytes) < 2

\* `if len(audio_bytes) < 4`
too_small(bytes) == Len(bytes) < 4

\* Faulty variant, for contrast: the two bytes read as an unsigned value.
int16_unsigned(lo, hi) == lo + 256 * hi

\* One element of a little-endian int16 view: low byte first, two's complement.
int16(lo, hi) ==
    LET u == lo + 256 * hi IN IF u >= 32768 THEN u - 65536 ELSE u

\* np.frombuffer(audio_bytes, dtype=np.int16): ValueError unless the size is a
\* multiple of the element size.
frombuffer_int16(bytes) ==
    IF Len(bytes) % 2 # 0 THEN Thrown
    ELSE Returned([i \in 1..(Len(bytes) \div 2) |-> int16(bytes[2 * i - 1], bytes[2 * i])])

\* np.frombuffer(audio_bytes, dtype=np.float32): each element is the float its
\* four bytes encode, kept here as those bytes.
frombuffer_float32(bytes) ==
    IF Len(bytes) % 4 # 0 THEN Thrown
    ELSE Returned([i \in 1..(Len(bytes) \div 4) |->
                      [float32 |-> SubSeq(bytes, 4 * i - 3, 4 * i)]])

\* `audio_array.astype(np.float32) / 32768.0`
full_scale == 32768
normalize(a) == [i \in DOMAIN a |-> [num |-> a[i], den |-> full_scale]]

\* `np.max(np.abs(audio_array)) > 10`
too_large(a) ==
    \E i \in DOMAIN a :
       (IF a[i].num < 0 THEN 0 - a[i].num ELSE a[i].num) > 10 * a[i].den

\* The inner try block: the PCM-16 reading and its checks.
as_pcm16(bytes) ==
    LET raw == frombuffer_int16(bytes) IN
    IF raw.raised THEN Thrown
    ELSE LET a == normalize(raw.array) IN
         IF Len(a) = 0 THEN Returned(<<>>)
         ELSE IF too_large(a) THEN frombuffer_float32(bytes)
         ELSE Returned(a)

_bytes_to_audio_array(bytes) ==
    IF too_small(bytes) THEN Returned(<<>>)
    ELSE LET first == as_pcm16(bytes) IN
         IF ~first.raised THEN first
         ELSE LET second == frombuffer_float32(bytes) IN
              IF ~second.raised THEN second ELSE Returned(<<>>)

\* The square of a sample in the buffer's units of 1e-4, rounded down:
\* floor(num^2 * 10^4 / 2^30) = floor(num^2 * 625 / (2^15 * 2^11)), in steps
\* that stay within 32 bits.
SquareLevel(x) ==
    LET sq == x.num * x.num
        hi == sq \div 32768
        lo == sq % 32768
    IN  (hi * 625 + (lo * 625) \div 32768) \div 2048

\* The decoded array as the runs the buffer is kept in.
RECURSIVE RunsTo(_, _)
RunsTo(a, i) ==
    IF i = 0 THEN <<>> ELSE Cat(RunsTo(a, i - 1), Run(1, SquareLevel(a[i])))

AsRuns(a) == RunsTo(a, Len(a))

\* process_audio_chunk from the bytes of the message.  A decoder that raised
\* would be caught by the except branch: an error dict, nothing changed.
process_audio_data(t, sid) ==
    LET decoded == _bytes_to_audio_array(audio_data) IN
    /\ IF ~session_known(session_data, sid)
       THEN /\ process_audio_chunk(t, sid, <<>>, TRUE)
            /\ UNCHANGED audio_array
       ELSE IF decoded.raised
       THEN /\ CanCall(t)
            /\ ret' = Ret("process_audio_chunk", "error", "none")
            /\ UNCHANGED <<buffer, is_processing, session_data, live_metrics,
                           pc, local, clock, audio_array>>
       ELSE /\ audio_array' = decoded.array
            /\ process_audio_chunk(t, sid, AsRuns(decoded.array), TRUE)
    /\ UNCHANGED <<transport, response, ledger, audio_data>>

\* A chunk decoded before the message arrives: half a second of tone.
Earlier == Rep(1, Tone)

NextDecoder ==
    \/ \E t \in Tasks, sid \in ApiSessions, uid \in UserIds :
          start_session(t, sid, uid) /\ UNCHANGED <<transport, api>>
    \/ \E t \in Tasks, sid \in ApiSessions :
          end_session(t, sid) /\ UNCHANGED <<transport, api>>
    \/ \E t \in Tasks, sid \in ApiSessions :
          clock < MaxChunks /\ process_audio_data(t, sid)
    \/ \E t \in Tasks, sid \in ApiSessions :
          /\ clock < MaxChunks
          /\ process_audio_chunk(t, sid, Earlier, TRUE)
          /\ UNCHANGED <<transport, api>>

\* The client's message is any byte sequence of the bounded set.
InitDecoder == \E data \in ByteSeqs : InitWith(data)

SpecDecoder == InitDecoder /\ [][NextDecoder]_vars

---------------------------------------------------------------------------
(* One session fed long tone chunks, every pass transcribed and scored: the   *)
(* environment that drives the trends past their capacity.                   *)

TrendAnalyses ==
    {[confidence_score |-> 80, dominant_emotion |-> "confident", words_per_minute |-> 120],
     [confidence_score |-> 40, dominant_emotion |-> NoEmotion, words_per_minute |-> NoValue]}

NextTrends ==
    \/ /\ ~session_known(session_data, "S1")
       /\ start_session(1, "S1", 1)
       /\ UNCHANGED <<transport, api>>
    \/ /\ clock < MaxPasses
       /\ process_audio_chunk(1, "S1", Rep(LongChunk, Tone), TRUE)
       /\ UNCHANGED <<transport, api>>
    \/ transcribe_done(1, "hello") /\ UNCHANGED <<transport, api>>
    \/ \E outcome \in TrendAnalyses : analyze_done(1, outcome) /\ UNCHANGED <<transport, api>>

SpecTrends == Init /\ [][NextTrends]_vars

---------------------------------------------------------------------------
(* The same session asked for investor responses while its trend grows past  *)
(* the three points a response carries.                                     *)

MaxScored == 5

NextContext ==
    \/ /\ ~session_known(session_data, "S1")
       /\ start_session(1, "S1", 1)
       /\ UNCHANGED <<transport, api>>
    \/ \E t \in Tasks :
          /\ clock < MaxScored
          /\ process_audio_chunk(t, "S1", Rep(LongChunk, Tone), TRUE)
          /\ UNCHANGED <<transport, api>>
    \/ \E t \in Tasks : transcribe_done(t, "hello") /\ UNCHANGED <<transport, api>>
    \/ \E t \in Tasks, outcome \in TrendAnalyses :
          analyze_done(t, outcome) /\ UNCHANGED <<transport, api>>
    \/ \E t \in Tasks :
          Len(events) < MaxResponses /\ generate_live_investor_response(t, "S1")
    \/ \E t \in Tasks, outcome \in ResponderOutcomes : respond_done(t, outcome)

SpecContext == Init /\ [][NextContext]_vars

---------------------------------------------------------------------------
(* One session id fed chunks the decoder rejected (the empty array) among     *)
(* chunks that start passes, restarted and ended at any moment.              *)

\* The empty array of a rejected chunk, and 15.5 s of tone.
CountedChunks == {<<>>, Rep(LongChunk, Tone)}

NextCounted ==
    \/ \E t \in Tasks, uid \in UserIds :
          start_session(t, "S1", uid) /\ UNCHANGED <<transport, api>>
    \/ \E t \in Tasks : end_session(t, "S1") /\ UNCHANGED <<transport, api>>
    \/ \E t \in Tasks, chunk \in CountedChunks :
          /\ clock < MaxChunks + 1
          /\ process_audio_chunk(t, "S1", chunk, TRUE)
          /\ UNCHANGED <<transport, api>>
    \/ \E t \in Tasks, text \in Texts \cup {NoText} :
          transcribe_done(t, text) /\ UNCHANGED <<transport, api>>
    \/ \E t \in Tasks, outcome \in ScorerOutcomes :
          analyze_done(t, outcome) /\ UNCHANGED <<transport, api>>

SpecCounted == Init /\ [][NextCounted]_vars

---------------------------------------------------------------------------
(* The test scenario of one fresh session on a fresh engine: 2.5 s of silence *)
(* followed by 3.5 s of the tone, cut into chunks of any length on a grid of  *)
(* a tenth of a second, collaborators answering in any of their ways.         *)

ScenarioSignal ==
    Cat(Run((5 * sample_rate) \div 2, Silent), Run((7 * sample_rate) \div 2, Tone))

ScenarioGrid == sample_rate \div 10

\* The part of the signal not fed yet: nothing removes samples in the scenario,
\* so what was fed is what the buffer holds.
ScenarioRest == LastSamples(ScenarioSignal, NSamples(ScenarioSignal) - NSamples(buffer))

NextScenario ==
    \/ /\ ~session_known(session_data, "S1")
       /\ start_session(1, "S1", 1)
       /\ UNCHANGED <<transport, api>>
    \/ \E k \in 1..(NSamples(ScenarioRest) \div ScenarioGrid) :
          /\ session_known(session_data, "S1")
          /\ clock < MaxChunks
          /\ process_audio_chunk(1, "S1", FirstSamples(ScenarioRest, k * ScenarioGrid), TRUE)
          /\ UNCHANGED <<transport, api>>
    \/ \E text \in Texts \cup {NoText} : transcribe_done(1, text) /\ UNCHANGED <<transport, api>>
    \/ \E outcome \in ScorerOutcomes : analyze_done(1, outcome) /\ UNCHANGED <<transport, api>>

SpecScenario == Init /\ [][NextScenario]_vars

---------------------------------------------------------------------------
(* Session S1 fed nothing but zero-valued chunks, short and long, on an engine *)
(* that serves another session with any audio at the same time.               *)

SilentChunks == {Rep(1, Silent), Rep(LongChunk, Silent)}

NextSilence ==
    \/ \E t \in Tasks, sid \in SessionIds, uid \in UserIds :
          start_session(t, sid, uid) /\ UNCHANGED <<transport, api>>
    \/ \E t \in Tasks, chunk \in SilentChunks, written \in BOOLEAN :
          /\ clock < MaxChunks
          /\ process_audio_chunk(t, "S1", chunk, written)
          /\ UNCHANGED <<transport, api>>
    \/ \E t \in Tasks, chunk \in Chunks, written \in BOOLEAN :
          /\ clock < MaxChunks
          /\ process_audio_chunk(t, "S2", chunk, written)
          /\ UNCHANGED <<transport, api>>
    \/ \E t \in Tasks, text \in Texts \cup {NoText} :
          transcribe_done(t, text) /\ UNCHANGED <<transport, api>>
    \/ \E t \in Tasks, outcome \in ScorerOutcomes :
          analyze_done(t, outcome) /\ UNCHANGED <<transport, api>>

SpecSilence == Init /\ [][NextSilence]_vars

---------------------------------------------------------------------------
(* Properties *)

ValidationAborts == {"abort_empty", "abort_short", "abort_silence", "abort_file"}

Trends(lm) == <<lm.confidence_trend, lm.emotion_trend>>

\* C1: under any interleaving of process_audio_chunk calls of any sessions, at
\* most one heavy pass is in progress, and is_processing is set while it is.
C1_OnePassAtATime ==
    /\ Cardinality({t \in Tasks : InPass(t)}) <= 1
    /\ (\E t \in Tasks : InPass(t)) => is_processing

\* A second call met the guard while a pass was suspended.
C1_Witness ==
    /\ \E t \in Tasks : InPass(t)
    /\ ret.pass = "skipped"

\* C2: a heavy pass that aborts on a validation failure returns no result, does
\* not raise, leaves both trends unchanged and leaves is_processing false.
C2_AbortReturnsToIdle ==
    [][\A t \in Tasks, sid \in SessionIds, chunk \in Chunks, written \in BOOLEAN :
          (process_audio_chunk(t, sid, chunk, written) /\ ret'.pass \in ValidationAborts)
          => /\ ret'.outcome = "processed"
             /\ pc'[t] = "idle"
             /\ Trends(live_metrics') = Trends(live_metrics)
             /\ is_processing' = FALSE]_vars

\* C3: whenever no process_audio_chunk call is under way, the buffer holds at
\* most max_buffer_size * sample_rate samples.
C3_BufferBounded ==
    (\A t \in Tasks : pc[t] = "idle") => NSamples(buffer) <= max_buffer_size * sample_rate

\* C4: the trim at the end of a pass, on a buffer longer than the maximum, keeps
\* exactly the most recent int(0.7 * max) samples in order (at most max, at least
\* 70% of max); on a buffer not longer than the maximum it changes nothing.
C4_TrimKeepsRecent ==
    [][(\E t \in Tasks : InPass(t) /\ pc'[t] = "idle" /\ ret'.pass = "recorded")
        => LET max == max_buffer_size * sample_rate IN
           IF NSamples(buffer) > max
           THEN /\ NSamples(buffer') = (7 * max) \div 10
                /\ Cat(FirstSamples(buffer, NSamples(buffer) - NSamples(buffer')), buffer')
                      = buffer
                /\ NSamples(buffer') <= max
                /\ 10 * NSamples(buffer') >= 7 * max
           ELSE buffer' = buffer]_vars

\* A pass has just ended on an over-long buffer of silence then tone, and the
\* buffer is the kept part: still mixed, tone last.
C4_Witness ==
    /\ ret.pass = "recorded"
    /\ 10 * NSamples(buffer) = 7 * max_buffer_size * sample_rate
    /\ buffer[1].e = Silent
    /\ buffer[Len(buffer)].e = Tone

\* The scores, and the emotion entries, of the scored results of a history.
IsScored(r) == "dominant_emotion" \in DOMAIN r.analysis
HasEmotion(r) == IsScored(r) /\ r.analysis.dominant_emotion # NoEmotion
ScoresOf(results) ==
    LET f == SelectSeq(results, IsScored)
    IN  [i \in 1..Len(f) |-> f[i].analysis.confidence_score]
EmotionsOf(results) ==
    LET f == SelectSeq(results, HasEmotion)
    IN  [i \in 1..Len(f) |->
            [emotion |-> f[i].analysis.dominant_emotion, timestamp |-> f[i].timestamp]]

\* C5: both trends hold at most 10 entries however many passes ran, and they are
\* the most recent entries in insertion order: with the session's history at
\* hand, the last 10 scores and the last 10 emotions of its scored results.
C5_TrendsBounded ==
    /\ Len(live_metrics.confidence_trend) <= 10
    /\ Len(live_metrics.emotion_trend) <= 10
    /\ session_known(session_data, "S1") =>
          LET results == session_data["S1"].analysis_results IN
          /\ live_metrics.confidence_trend = LastN(ScoresOf(results), 10)
          /\ live_metrics.emotion_trend = LastN(EmotionsOf(results), 10)

\* More than 10 scored passes ran, both kinds of analysis among the first ones
\* evicted, and the trends are full.
C5_Witness ==
    /\ session_known(session_data, "S1")
    /\ Len(ScoresOf(session_data["S1"].analysis_results)) > 10
    /\ Len(EmotionsOf(session_data["S1"].analysis_results)) > 10
    /\ Len(live_metrics.confidence_trend) = 10
    /\ Len(live_metrics.emotion_trend) = 10
    /\ live_metrics.confidence_trend[1] # live_metrics.confidence_trend[2]

\* C6: while session sid stays active (no start or end of sid itself), no step of
\* the engine lowers speaking_time, and a processed chunk of sid adds its length
\* when it is classified as speaking and nothing otherwise.
C6_SpeakingTimeMonotone ==
    [][\A sid \in SessionIds :
          (/\ session_data[sid] # NoSession
           /\ session_data'[sid] # NoSession
           /\ ~\E t \in Tasks, uid \in UserIds : start_session(t, sid, uid))
          => /\ live_metrics'.speaking_time >= live_metrics.speaking_time
             /\ \A t \in Tasks, chunk \in Chunks, written \in BOOLEAN :
                   process_audio_chunk(t, sid, chunk, written)
                   => live_metrics'.speaking_time = live_metrics.speaking_time +
                         (IF SumSeq(chunk) > speech_threshold_sq * NSamples(chunk)
                          THEN NSamples(chunk) ELSE 0)]_vars

\* C7: end_session on an id that is not active (never started, or ended before)
\* returns an error instead of a summary and leaves session_data, the buffer and
\* the live metrics as they were.
C7_EndUnknownFails ==
    [][\A t \in Tasks, sid \in SessionIds :
          (session_data[sid] = NoSession /\ end_session(t, sid))
          => /\ ret'.op = "end_session"
             /\ ret'.outcome = "error"
             /\ UNCHANGED <<session_data, buffer, live_metrics>>]_vars

\* An end_session has failed after every session that ran has been ended, the
\* metrics of the ended session still in place.
C7_Witness ==
    /\ ret.op = "end_session"
    /\ ret.outcome = "error"
    /\ \A sid \in SessionIds : session_data[sid] = NoSession
    /\ live_metrics.speaking_time > 0

\* C8: process_audio_chunk on an id that is not active raises and changes
\* nothing: buffer, live metrics, flag and every session record stay as they were.
C8_ChunkUnknownFails ==
    [][(clock' = clock /\ local' = local) =>
          \A t \in Tasks, sid \in SessionIds :
             (CanCall(t) /\ session_data[sid] = NoSession) =>
                \A chunk \in Chunks, written \in BOOLEAN :
                   process_audio_chunk(t, sid, chunk, written)
                   => /\ ret'.op = "process_audio_chunk"
                      /\ ret'.outcome = "raised"
                      /\ UNCHANGED <<buffer, live_metrics, session_data,
                                     is_processing, pc>>]_vars

\* A chunk was refused while another session is active with audio buffered.
C8_Witness ==
    /\ ret.op = "process_audio_chunk"
    /\ ret.outcome = "raised"
    /\ buffer # <<>>
    /\ \E sid \in SessionIds :
          session_data[sid] # NoSession /\ session_data[sid].total_chunks > 0

\* C9: start_session on an active id fails as a duplicate and leaves the record
\* of that session and the live metrics unchanged.
C9_DuplicateStartFails ==
    [][\A t \in Tasks, sid \in SessionIds, uid \in UserIds :
          (start_session(t, sid, uid) /\ session_data[sid] # NoSession)
          => /\ ret'.outcome = "duplicate"
             /\ session_data'[sid] = session_data[sid]
             /\ live_metrics' = live_metrics]_vars

\* C10: a chunk processed while no pass is in flight enters a heavy pass exactly
\* when, after the append, the buffer lasts more than transcription_threshold
\* and the mean square of its last 2 seconds exceeds silence_threshold; a chunk
\* that fails either condition starts nothing and records no result.
C10_GateIffTrigger ==
    [][\A t \in Tasks, sid \in SessionIds, chunk \in Chunks, written \in BOOLEAN :
          (/\ process_audio_chunk(t, sid, chunk, written)
           /\ session_data[sid] # NoSession
           /\ \A u \in Tasks : ~InPass(u))
          => LET last2s == LastSamples(buffer', 2 * sample_rate)
                 trigger == /\ NSamples(buffer') > transcription_threshold * sample_rate
                            /\ SumSeq(last2s) > silence_threshold * NSamples(last2s)
                 entered == \/ pc'[t] = "transcribing"
                            \/ pc'[t] = "idle" /\ ret'.pass \in ValidationAborts
             IN  /\ entered <=> trigger
                 /\ ~trigger =>
                       \A s \in SessionIds :
                          session_data[s] # NoSession =>
                             session_data'[s].analysis_results =
                                session_data[s].analysis_results]_vars

\* C11: in the scenario of 2.5 s of silence then 3.5 s of tone, whatever the
\* chunking, once the buffer lasts more than 3.0 s and the mean square of its last
\* 2 seconds exceeds 0.01 and the call that brought it there has returned, the
\* session has a recorded result, and every recorded result has has_speech true.
C11_ScenarioRecordsSpeech ==
    LET last2s == LastSamples(buffer, 2 * sample_rate) IN
    (/\ \A t \in Tasks : pc[t] = "idle"
     /\ session_data["S1"] # NoSession
     /\ NSamples(buffer) > transcription_threshold * sample_rate
     /\ SumSeq(last2s) > silence_threshold * NSamples(last2s))
    => /\ Len(session_data["S1"].analysis_results) >= 1
       /\ \A i \in 1..Len(session_data["S1"].analysis_results) :
             session_data["S1"].analysis_results[i].has_speech

\* C12: a session fed only silent chunks, of any count and size, triggers no
\* heavy pass with any of them, and after each of them is_speaking is false and
\* speaking_time is 0.
C12_SilenceTriggersNothing ==
    [][\A t \in Tasks, chunk \in SilentChunks, written \in BOOLEAN :
          (session_data["S1"] # NoSession /\ process_audio_chunk(t, "S1", chunk, written))
          => /\ pc'[t] = "idle"
             /\ ret'.pass \in {"not_called", "skipped"}
             /\ ~live_metrics'.is_speaking
             /\ live_metrics'.speaking_time = 0]_vars

\* C13: when the transcription of a validated pass returns no text (the session
\* still being active), the pass appends exactly one result, with transcript ""
\* and the 'Continuing to listen...' payload of confidence_score 0; the
\* accumulated transcript and both trends are unchanged, the scorer is not
\* called (the call is not left waiting for it) and the call returns normally.
C13_NoTextStillRecords ==
    [][\A t \in Tasks :
          (transcribe_done(t, NoText) /\ session_data[local[t].sid] # NoSession)
          => LET old == session_data[local[t].sid]
                 new == session_data'[local[t].sid]
             IN  /\ new # NoSession
                 /\ Len(History(new)) = Len(History(old)) + 1
                 /\ SubSeq(History(new), 1, Len(History(old))) = History(old)
                 /\ LastResult(new).transcript = ""
                 /\ LastResult(new).analysis.message = "Continuing to listen..."
                 /\ LastResult(new).analysis.confidence_score = 0
                 /\ new.accumulated_transcript = old.accumulated_transcript
                 /\ Trends(live_metrics') = Trends(live_metrics)
                 /\ pc'[t] = "idle"
                 /\ ret'.op = "process_audio_chunk"
                 /\ ret'.outcome = "processed"]_vars

\* A pass without text has just been recorded in a session that already had a
\* transcript.
C13_Witness ==
    /\ ret.pass = "recorded"
    /\ \E sid \in SessionIds :
          /\ session_data[sid] # NoSession
          /\ session_data[sid].accumulated_transcript # <<>>
          /\ History(session_data[sid]) # <<>>
          /\ LastResult(session_data[sid]).transcript = ""
          /\ "message" \in DOMAIN LastResult(session_data[sid]).analysis

C18_ChunkDuringPass ==
    [][/\ (clock' = clock + 1 /\ \E u \in Tasks : InPass(u)) =>
             \A t \in Tasks, sid \in SessionIds :
                (CanCall(t) /\ session_data[sid] # NoSession) =>
                   \A chunk \in Chunks, written \in BOOLEAN :
                      process_audio_chunk(t, sid, chunk, written)
                      => /\ NSamples(buffer') = NSamples(buffer) + NSamples(chunk)
                         /\ FirstSamples(buffer', NSamples(buffer)) = buffer
                         /\ LastSamples(buffer', NSamples(chunk)) = chunk
                         /\ session_data'[sid].total_chunks = session_data[sid].total_chunks + 1
                         /\ live_metrics'.last_update = clock + 1
                         /\ live_metrics'.is_speaking
                               = (SumSeq(chunk) > speech_threshold_sq * NSamples(chunk))
                         /\ \A s \in SessionIds :
                               session_data[s] # NoSession =>
                                  History(session_data'[s]) = History(session_data[s])
                         /\ pc'[t] = "idle"
                         /\ ret'.pass \in {"not_called", "skipped"}
       /\ \A u \in Tasks :
             (InPass(u) /\ pc'[u] = "idle")
             => /\ LastSamples(buffer, NSamples(buffer')) = buffer'
                /\ (NSamples(buffer) <= max_buffer_size * sample_rate => buffer' = buffer)]_vars

\* A pass is in flight and the buffer has grown past the snapshot the pass took:
\* a later chunk was appended behind it.
C18_Witness ==
    \E t \in Tasks :
       /\ InPass(t)
       /\ ret.op = "process_audio_chunk"
       /\ ret.pass = "skipped"
       /\ NSamples(buffer) > local[t].result.duration

\* C20: with session b active, an operation on another session a (start_session,
\* process_audio_chunk, end_session) changes nothing b observes: the buffered
\* audio, speaking_time, the trends and b's analysis results stay as they were.
C20_SessionsIsolated ==
    [][\A a \in SessionIds, b \in SessionIds :
          (/\ a # b
           /\ session_data[b] # NoSession
           /\ \/ \E t \in Tasks, uid \in UserIds : start_session(t, a, uid)
              \/ \E t \in Tasks : end_session(t, a)
              \/ \E t \in Tasks, chunk \in Chunks, written \in BOOLEAN :
                    session_data[a] # NoSession /\ process_audio_chunk(t, a, chunk, written))
          => /\ buffer' = buffer
             /\ live_metrics'.speaking_time = live_metrics.speaking_time
             /\ Trends(live_metrics') = Trends(live_metrics)
             /\ session_data'[b] = session_data[b]]_vars

\* The events a step appends to the log.
Emitted == SubSeq(events', Len(events) + 1, Len(events'))

LiveMetricsOf(log, sid) ==
    SelectSeq(log, LAMBDA e : e.event = "live_metrics" /\ e.session_id = sid)

UpdatesOf(log, sid) ==
    SelectSeq(log, LAMBDA e : e.event = "analysis_update" /\ e.session_id = sid)

ResultsOf(log) == [i \in 1..Len(log) |-> log[i].analysis]

\* C15: for an active session a handler's process_audio_chunk never raises,
\* whatever fails in the pass (the file of the snapshot is not written, the
\* transcription gives nothing, the scorer raises or returns an error): the call
\* returns normally, emits the live_metrics event of its chunk last, leaves
\* is_processing clear, and its handler stays in its receive loop for the next
\* chunk.
C15_PassFailuresContained ==
    [][/\ \A sid \in SessionIds :
             (AtReceive(sid) /\ session_data[sid] # NoSession /\ clock' = clock + 1) =>
                \A chunk \in Chunks, written \in BOOLEAN :
                   ws_receive_chunk(sid, chunk, written)
                   => /\ connections' = connections
                      /\ \/ \E t \in Tasks : ~InPass(t) /\ InPass(t)' /\ handling'[t] = clock'
                         \/ /\ ret'.op = "process_audio_chunk"
                            /\ ret'.outcome = "processed"
                            /\ Emitted = <<LiveMetricsEvent(sid, clock')>>
                            /\ (ret'.pass = "abort_file" => ~is_processing')
       /\ \A t \in Tasks, sid \in SessionIds :
             (InPass(t) /\ local[t].sid = sid /\ ~InPass(t)')
             => /\ ret'.op = "process_audio_chunk"
                /\ ret'.outcome = "processed"
                /\ Emitted # <<>>
                /\ Emitted[Len(Emitted)] = LiveMetricsEvent(sid, handling[t])
                /\ ~is_processing'
                /\ connections' = connections
                /\ AtReceive(sid)']_vars

\* A call whose scorer failed has returned: the failure is recorded, the
\* live_metrics event of the chunk is the last one emitted, and the handler is
\* back at its receive.
C15_Witness ==
    /\ ret.pass = "recorded"
    /\ events # <<>>
    /\ events[Len(events)].event = "live_metrics"
    /\ LET sid == events[Len(events)].session_id IN
          /\ AtReceive(sid)
          /\ session_data[sid] # NoSession
          /\ History(session_data[sid]) # <<>>
          /\ "error" \in DOMAIN LastResult(session_data[sid]).analysis

\* C16: every chunk a handler handed to process_audio_chunk has exactly one
\* live_metrics event once its call returned, and the live_metrics events of one
\* session are in the order in which their chunks arrived.
C16_LiveMetricsInArrivalOrder ==
    /\ \A sid \in SessionIds :
          LET lm == LiveMetricsOf(events, sid) IN
             \A i \in 1..Len(lm), j \in 1..Len(lm) : i < j => lm[i].chunk < lm[j].chunk
    /\ \A k \in 1..clock :
          \/ \E t \in Tasks : InPass(t) /\ handling[t] = k
          \/ Cardinality({i \in 1..Len(events) :
                             events[i].event = "live_metrics" /\ events[i].chunk = k}) = 1

\* C17: a step emits an analysis_update for a session exactly when it appends a
\* result to the history of that session: one event per appended result, carrying
\* it, so that the events of a session follow the order of its history.
C17_UpdatePerRecordedResult ==
    [][\A sid \in SessionIds :
          LET new == ResultsOf(UpdatesOf(Emitted, sid))
              grew == /\ session_data[sid] # NoSession
                      /\ session_data'[sid] # NoSession
                      /\ Len(History(session_data'[sid])) > Len(History(session_data[sid]))
          IN  (new # <<>> \/ grew)
              => /\ session_data[sid] # NoSession
                 /\ session_data'[sid] # NoSession
                 /\ History(session_data'[sid]) = History(session_data[sid]) \o new]_vars

\* C19: while a call of a handler of sid is suspended in a pass, a later chunk
\* of that connection can be ingested.
C19_IngestionNotDelayed ==
    \A sid \in SessionIds :
       (connections[sid].open > 0 /\ session_data[sid] # NoSession /\ InFlight(sid) > 0)
       => ENABLED (\E chunk \in Chunks, written \in BOOLEAN :
                      ws_receive_chunk(sid, chunk, written))

\* C21: generate_live_investor_response on an active session whose accumulated
\* transcript is empty or only whitespace returns the fixed encouragement
\* message; the response collaborator is not called (the call is not left
\* waiting), no event is emitted and the engine state is unchanged.
C21_BlankTranscriptEncouraged ==
    [][\A t \in Tasks, sid \in ApiSessions :
          (/\ CanCall(t)
           /\ session_data[sid] # NoSession
           /\ \A i \in 1..Len(session_data[sid].accumulated_transcript) :
                 session_data[sid].accumulated_transcript[i] = " "
           /\ generate_live_investor_response(t, sid))
          => /\ "message" \in DOMAIN response'
             /\ response'.message = "I'm listening... please continue with your pitch."
             /\ "error" \notin DOMAIN response'
             /\ ret'.op = "generate_live_investor_response"
             /\ pc' = pc
             /\ events' = events
             /\ UNCHANGED <<buffer, is_processing, session_data, live_metrics>>]_vars

\* The encouragement was returned for a transcript that is not empty but blank.
C21_Witness ==
    /\ ret.op = "generate_live_investor_response"
    /\ response = Encouragement
    /\ \E sid \in ApiSessions :
          /\ session_data[sid] # NoSession
          /\ session_data[sid].accumulated_transcript # <<>>
          /\ \A i \in 1..Len(session_data[sid].accumulated_transcript) :
                session_data[sid].accumulated_transcript[i] = " "

\* C22: generate_live_investor_response for an id that is not active fails by
\* raising, which a caller cannot take for a degraded response.
C22_UnknownResponseFails ==
    [][\A t \in Tasks, sid \in ApiSessions :
          (/\ CanCall(t)
           /\ session_data[sid] = NoSession
           /\ generate_live_investor_response(t, sid))
          => /\ ret'.op = "generate_live_investor_response"
             /\ ret'.outcome = "raised"
             /\ response' = response]_vars

\* C23: when the response collaborator raises, the call returns a degraded
\* response with an error field and the generic continuation message, emits no
\* event and leaves every session record and the live metrics unchanged.
C23_ResponderFailureDegraded ==
    [][\A t \in Tasks :
          (pc[t] = "responding" /\ respond_done(t, Raised))
          => /\ ret'.op = "generate_live_investor_response"
             /\ ret'.outcome = "returned"
             /\ "error" \in DOMAIN response'
             /\ response'.message
                   = "I'm having trouble processing your pitch right now. Please continue."
             /\ events' = events
             /\ UNCHANGED <<session_data, live_metrics, buffer, is_processing>>
             /\ pc'[t] = "idle"]_vars

\* A degraded response was returned for an active session with a transcript,
\* after the collaborator had answered an earlier request.
C23_Witness ==
    /\ ret.op = "generate_live_investor_response"
    /\ "error" \in DOMAIN response
    /\ response.error[2] = CollaboratorFailed
    /\ \E sid \in ApiSessions :
          /\ session_data[sid] # NoSession
          /\ \E i \in 1..Len(session_data[sid].accumulated_transcript) :
                session_data[sid].accumulated_transcript[i] # " "

\* C24: the summary a successful end_session returns has analysis_count equal to
\* the number of passes completed for the id since its start_session and
\* total_chunks equal to the number of chunks processed for it; the id is no
\* longer in session_data afterwards.
C24_SummaryCounts ==
    [][\A sid \in ApiSessions :
          (session_data[sid] # NoSession /\ api_end_session(sid))
          => /\ response'.analysis_count = ledger[sid].passes
             /\ response'.total_chunks = ledger[sid].chunks
             /\ session_data'[sid] = NoSession]_vars

\* The non-empty transcripts of the passes of a session, in pass order: those
\* of its history, then that of a pass of the session waiting for the scorer.
TranscriptsOf(results) ==
    LET all == [i \in 1..Len(results) |-> results[i].transcript]
    IN  SelectSeq(all, LAMBDA x : x # "")

ScoringNow(sid) ==
    {t \in Tasks : pc[t] = "analyzing" /\ local[t].sid = sid /\ local[t].live}

PassTexts(sid) ==
    TranscriptsOf(History(session_data[sid])) \o
       (IF ScoringNow(sid) = {} THEN <<>>
        ELSE <<local[CHOOSE t \in ScoringNow(sid) : TRUE].result.transcript>>)

\* texts joined by single spaces, as the sequence of the pieces.
JoinedBySpaces(texts) ==
    IF texts = <<>> THEN <<>>
    ELSE [i \in 1..(2 * Len(texts) - 1) |->
             IF i % 2 = 1 THEN texts[(i + 1) \div 2] ELSE " "]

\* C25: the accumulated transcript of an active session is the non-empty
\* transcripts of its passes, in pass order, joined by single spaces, with no
\* separator before the first or after the last.
C25_TranscriptSpaceJoined ==
    \A sid \in SessionIds :
       session_data[sid] # NoSession
       => session_data[sid].accumulated_transcript = JoinedBySpaces(PassTexts(sid))

\* C26: while a session id stays active its analysis history only grows: the
\* history before a step is a prefix of the history after it.
C26_HistoryAppendOnly ==
    [][\A sid \in SessionIds :
          (session_data[sid] # NoSession /\ session_data'[sid] # NoSession)
          => /\ Len(History(session_data'[sid])) >= Len(History(session_data[sid]))
             /\ SubSeq(History(session_data'[sid]), 1, Len(History(session_data[sid])))
                   = History(session_data[sid])]_vars

\* C27: an end_session that runs while a pass of the session is suspended at a
\* collaborator does not cancel the pass: the pass stays where it is, and when
\* its collaborator returns it runs to its end, the call returns normally and
\* is_processing is clear.
C27_EndDuringPass ==
    [][/\ \A t \in Tasks, sid \in SessionIds :
             (/\ CanCall(t)
              /\ session_data[sid] # NoSession
              /\ \E u \in Tasks : InPass(u) /\ local[u].sid = sid
              /\ end_session(t, sid))
             => \A u \in Tasks : InPass(u) => pc'[u] = pc[u] /\ local'[u].sid = local[u].sid
       /\ \A u \in Tasks :
             (InPass(u) /\ pc'[u] # pc[u])
             => \/ pc[u] = "transcribing" /\ pc'[u] = "analyzing"
                \/ /\ pc'[u] = "idle"
                   /\ ret'.op = "process_audio_chunk"
                   /\ ret'.outcome = "processed"
                   /\ ~is_processing']_vars

\* The pass of an ended session has come back from the transcription, found
\* its session gone and returned; the engine is idle with the flag clear.
C27_Witness ==
    /\ ret.op = "process_audio_chunk"
    /\ ret.pass = "abort_exception"
    /\ ~is_processing
    /\ \A t \in Tasks : pc[t] = "idle"

C29_ShortChunkEmpty ==
    [][\A t \in Tasks, sid \in ApiSessions :
          (/\ session_known(session_data, sid)
           /\ process_audio_data(t, sid))
          => /\ ret'.op = "process_audio_chunk"
             /\ ret'.outcome = "processed"
             /\ Len(audio_data) < 4 => audio_array' = <<>> /\ buffer' = buffer]_vars

C29_Witness ==
    /\ Len(audio_data) = 3
    /\ session_known(session_data, "S1")
    /\ session_data["S1"].total_chunks = 2
    /\ buffer = Earlier
    /\ audio_array = <<>>

\* C30: a message of even length of at least 4 bytes decodes to length/2
\* samples, sample i being the signed little-endian 16-bit value of its two
\* bytes over 32768, which lies in [-1, 1].
C30_Pcm16Decoded ==
    [][\A t \in Tasks, sid \in ApiSessions :
          (/\ session_known(session_data, sid)
           /\ Len(audio_data) >= 4
           /\ Len(audio_data) % 2 = 0
           /\ process_audio_data(t, sid))
          => /\ Len(audio_array') * 2 = Len(audio_data)
             /\ \A i \in 1..Len(audio_array') :
                   LET unsigned == audio_data[2 * i - 1] + 256 * audio_data[2 * i]
                       signed == IF audio_data[2 * i] >= 128
                                 THEN unsigned - 65536 ELSE unsigned
                       x == audio_array'[i]
                   IN  /\ x = [num |-> signed, den |-> 32768]
                       /\ 0 - x.den <= x.num
                       /\ x.num <= x.den]_vars

C30_Witness ==
    /\ ret = Ret("process_audio_chunk", "processed", "not_called")
    /\ NSamples(buffer) = 2
    /\ audio_data = <<0, 128, 255, 127>>
    /\ Len(audio_array) = 2
    /\ audio_array[1].num = 0 - 32768
    /\ audio_array[2].num = 32767

\* C32: confidence_trend and emotion_trend change only in a start_session and
\* in the completion of a pass whose scorer returned an analysis without an
\* error marker: a chunk that runs no pass, a pass without text, a scorer that
\* raises or returns an error, a response request and a failed end_session
\* leave both as they were.
C32_TrendsOnlyFromScoredPass ==
    [][(Trends(live_metrics') # Trends(live_metrics))
       => \/ \E sid \in ApiSessions, uid \in UserIds : api_start_session(sid, uid)
          \/ \E t \in Tasks, outcome \in Analyses : api_analyze_done(t, outcome)]_vars

\* A scored pass has set the trends and a later pass whose scorer failed was
\* recorded without touching them.
C32_Witness ==
    /\ session_known(session_data, "S1")
    /\ Len(History(session_data["S1"])) = 2
    /\ IsScored(History(session_data["S1"])[1])
    /\ "error" \in DOMAIN LastResult(session_data["S1"]).analysis
    /\ live_metrics.confidence_trend = <<80>>
    /\ Len(live_metrics.emotion_trend) = 1

\* C33: when the response collaborator returns for a session with a non-blank
\* transcript, the response carries a session context with the current
\* speaking_time, the current speaking_pace and the last min(3, n) of the n
\* confidence points in their order, and the metrics are left as they were.
C33_ContextLastThree ==
    [][\A t \in Tasks :
          (/\ pc[t] = "responding"
           /\ respond_done(t, InvestorReply))
          => /\ "session_context" \in DOMAIN response'
             /\ LET ctx == response'.session_context
                    tr == live_metrics.confidence_trend
                    n == Len(tr)
                    k == IF n < 3 THEN n ELSE 3
                IN  /\ ctx.total_speaking_time = live_metrics.speaking_time
                    /\ ctx.current_pace = live_metrics.speaking_pace
                    /\ Len(ctx.confidence_trend) = k
                    /\ \A i \in 1..k : ctx.confidence_trend[i] = tr[n - k + i]
             /\ live_metrics' = live_metrics]_vars

C33_Witness ==
    /\ "session_context" \in DOMAIN response
    /\ ret.op = "generate_live_investor_response"
    /\ live_metrics.confidence_trend = <<40, 80, 40, 40>>
    /\ response.session_context.confidence_trend = <<80, 40, 40>>
    /\ response.session_context.current_pace = live_metrics.speaking_pace

\* C34: whenever no process_audio_chunk call is executing (no task is inside a
\* pass), is_processing is false, so the next chunk that satisfies the trigger
\* enters a pass.
C34_NoStall ==
    (\A t \in Tasks : ~InPass(t)) => ~is_processing

\* C35: every result recorded in a session has a duration above the
\* transcription threshold and an energy of at least the silence threshold, and
\* has_speech is true exactly when the energy is above the silence threshold.
C35_RecordedResultsValid ==
    \A sid \in SessionIds :
       session_known(session_data, sid) =>
          \A i \in 1..Len(History(session_data[sid])) :
             LET r == History(session_data[sid])[i]
                 above == r.audio_energy.den > 0
                          /\ r.audio_energy.num > silence_threshold * r.audio_energy.den
             IN  /\ r.duration > transcription_threshold * sample_rate
                 /\ r.audio_energy.den > 0
                 /\ r.audio_energy.num >= silence_threshold * r.audio_energy.den
                 /\ r.has_speech <=> above

\* A result recorded from a snapshot that is mostly silence: 15.5 s of silence
\* followed by 15.5 s of tone.
C35_Witness ==
    \E sid \in SessionIds :
       /\ session_known(session_data, sid)
       /\ History(session_data[sid]) # <<>>
       /\ LastResult(session_data[sid]).duration = 2 * LongChunk * BlockSamples
       /\ LastResult(session_data[sid]).audio_energy.num
             = LongChunk * BlockSamples * Tone
       /\ LastResult(session_data[sid]).has_speech

\* C36: the completion of a pass leaves the buffer as it was unless it is longer
\* than the maximum, in which case the most recent 70% are kept; and every step
\* after which the buffer no longer starts with its former contents is such a
\* trim or a successful end_session: between them each snapshot extends the
\* one before it.
C36_PassKeepsBuffer ==
    [][/\ \A t \in Tasks :
             (pc' # pc /\ InPass(t) /\ pc'[t] = "idle")
             => IF NSamples(buffer) > max_buffer_size * sample_rate
                THEN \/ ret'.pass = "abort_exception" /\ buffer' = buffer
                     \/ /\ buffer' = LastSamples(buffer, NSamples(buffer'))
                        /\ 10 * NSamples(buffer') = 7 * max_buffer_size * sample_rate
                ELSE buffer' = buffer
       /\ (buffer' # buffer /\ FirstSamples(buffer', NSamples(buffer)) # buffer)
             => \/ /\ \E t \in Tasks : InPass(t) /\ pc'[t] = "idle"
                   /\ NSamples(buffer) > max_buffer_size * sample_rate
                \/ ret' = Ret("end_session", "summary", "none")]_vars

\* Two passes of one session: the first on 15.5 s, the second on those 15.5 s
\* and 15.5 s more, after which the overflow trim has cut the buffer.
C36_Witness ==
    \E sid \in SessionIds :
       /\ session_known(session_data, sid)
       /\ Len(History(session_data[sid])) = 2
       /\ History(session_data[sid])[1].duration = LongChunk * BlockSamples
       /\ History(session_data[sid])[2].duration = 2 * LongChunk * BlockSamples
       /\ NSamples(buffer) = keep_length

\* C37: every process_audio_chunk call of an active session, a call with a
\* chunk the decoder rejected included, raises total_chunks by exactly 1; and
\* the chunk_id values of the session's history are strictly increasing and
\* none exceeds total_chunks.
C37_ChunksCounted ==
    [][/\ \A t \in Tasks, chunk \in CountedChunks :
             (/\ session_known(session_data, "S1")
              /\ process_audio_chunk(t, "S1", chunk, TRUE))
             => /\ session_known(session_data', "S1")
                /\ session_data'["S1"].total_chunks = session_data["S1"].total_chunks + 1
       /\ session_known(session_data', "S1")
             => LET h == History(session_data'["S1"]) IN
                /\ \A i \in 1..Len(h) : h[i].chunk_id <= session_data'["S1"].total_chunks
                /\ \A i \in 1..(Len(h) - 1) : h[i].chunk_id < h[i + 1].chunk_id]_vars

\* Two results in the history, a rejected chunk counted between their passes.
C37_Witness ==
    /\ session_known(session_data, "S1")
    /\ session_data["S1"].total_chunks = 3
    /\ Len(History(session_data["S1"])) = 2
    /\ History(session_data["S1"])[1].chunk_id = 1
    /\ History(session_data["S1"])[2].chunk_id = 3
    /\ NSamples(buffer) = keep_length

\* C38: when a handler terminates, the session id it served is absent from
\* session_data; and the end_session call in the clean-up of a handler that
\* left its loop after the end_session command changes nothing in the engine.
C38_HandlerEndsItsSession ==
    [][\A sid \in SessionIds :
          /\ (connections'[sid].closed = connections[sid].closed + 1)
                => ~session_known(session_data', sid)
          /\ ws_cleanup(sid)
                => /\ session_data' = session_data
                   /\ buffer' = buffer
                   /\ live_metrics' = live_metrics
                   /\ is_processing' = is_processing]_vars

\* C39: while a user's session is active under an id, a connection that another
\* user makes to that id leaves the session as it is (its user_id, chunk count,
\* transcript and history), just as the metrics accessor refuses that user.
C39_OnlyOwnerChangesSession ==
    [][\A sid \in ApiSessions, uid \in Owners :
          (/\ session_known(session_data, sid)
           /\ session_data[sid].user_id # uid)
          => /\ ws_connect(sid, uid) => session_data'[sid] = session_data[sid]
             /\ get_session_metrics(sid, uid) => response' = AccessDenied]_vars

\* A value made only of numbers, strings, booleans, null and lists and dicts
\* of these.
RECURSIVE IsJsonSafe(_)
IsJsonSafe(obj) ==
    IF obj.py \in {"bool", "int", "float", "str", "NoneType"} THEN TRUE
    ELSE IF obj.py \in {"list", "dict"}
    THEN \A i \in 1..Len(obj.items) :
            IsJsonSafe(IF obj.py = "list" THEN obj.items[i] ELSE obj.items[i].v)
    ELSE FALSE

\* The value with everything of another type replaced by the text of it.
RECURSIVE Stringified(_)
Stringified(obj) ==
    IF obj.py = "dict"
    THEN [py |-> "dict",
          items |-> [i \in 1..Len(obj.items) |->
                        [k |-> obj.items[i].k, v |-> Stringified(obj.items[i].v)]]]
    ELSE IF obj.py = "list"
    THEN [py |-> "list", items |-> [i \in 1..Len(obj.items) |-> Stringified(obj.items[i])]]
    ELSE IF obj.py \in {"bool", "int", "float", "str", "NoneType"} THEN obj
    ELSE [py |-> "str", v |-> obj.str]

\* C31: what is written to a client is made only of numbers, strings, booleans,
\* null and lists and dicts of these; it is the message with every value of
\* another type replaced by its string representation; and converting it
\* again leaves it as it is.
C31_PayloadJsonSafe ==
    [][\A value \in DataValues :
          LET data == [py |-> "dict", items |-> <<[k |-> "analysis", v |-> value]>>] IN
          emit_to_session("analysis_update", data, "S1")
          => LET sent == events'[Len(events')].message IN
             /\ IsJsonSafe(sent)
             /\ sent = Stringified(Message("analysis_update", data))
             /\ _make_json_safe(sent) = sent]_vars

====
